---- MODULE Spec2Model ----
(***************************************************************************)
(* Model of src/src/cython/common.hpp: the exception-to-host-error bridge  *)
(* (CppExn2PyErr), the type-erased scorer context (scorer_init_f64,        *)
(* scorer_func_wrapper_f64, scorer_deinit) and the RAII wrapper            *)
(* RF_StringWrapper.                                                       *)
(*                                                                         *)
(* Spec   : a host calling the scorer boundary functions.                  *)
(* SpecB  : the bridge called on every exception class.                    *)
(* SpecW  : a host constructing, moving and destroying RF_StringWrappers.  *)
(* SpecD  : visit, visitor and the conversion of host values.              *)
(* SpecC  : workers without the runtime lock calling the scorer functions. *)
(***************************************************************************)
EXTENDS Integers, Sequences, FiniteSets, TLC

\* ---------------------------------------------------------------- bounds
MaxLen == 1         \* largest buffer length drawn
MaxCount == 2       \* largest str_count drawn

\* ------------------------------------------------------------ exceptions
NoExn == [kind |-> "none", what |-> ""]
NoErr == [type |-> "none", msg |-> ""]

\* C++ exception classes the bridge distinguishes.  "foreign" is a thrown
\* object that does not derive from std::exception (e.g. throw 42).
StdKinds ==
  {"std::exception", "std::bad_alloc", "std::bad_cast", "std::bad_typeid",
   "PythonTypeError", "std::logic_error", "std::domain_error",
   "std::invalid_argument", "std::out_of_range", "std::runtime_error",
   "std::ios_base::failure", "std::overflow_error", "std::range_error",
   "std::underflow_error"}

ExnKinds == StdKinds \cup {"foreign"}

\* Direct base class of each exception class (PythonTypeError: line 10).
Parent(k) ==
  CASE k = "PythonTypeError"        -> "std::bad_typeid"
    [] k = "std::domain_error"      -> "std::logic_error"
    [] k = "std::invalid_argument"  -> "std::logic_error"
    [] k = "std::out_of_range"      -> "std::logic_error"
    [] k = "std::ios_base::failure" -> "std::runtime_error"
    [] k = "std::overflow_error"    -> "std::runtime_error"
    [] k = "std::range_error"       -> "std::runtime_error"
    [] k = "std::underflow_error"   -> "std::runtime_error"
    [] k = "std::exception"         -> "root"
    [] k = "foreign"                -> "root"
    [] OTHER                        -> "std::exception"

\* A handler `catch (const c&)` matches a thrown object of class k iff c is
\* k or one of its bases.
RECURSIVE IsA(_, _)
IsA(k, c) ==
  IF k = c THEN TRUE
  ELSE IF k = "root" THEN FALSE
  ELSE IsA(Parent(k), c)

\* Variant: the std::exception handler placed first.
CatchClauses_baseFirst ==
  << <<"std::exception",         "RuntimeError">>,
     <<"std::bad_alloc",         "MemoryError">>,
     <<"std::bad_cast",          "TypeError">>,
     <<"std::bad_typeid",        "TypeError">>,
     <<"std::domain_error",      "ValueError">>,
     <<"std::invalid_argument",  "ValueError">>,
     <<"std::ios_base::failure", "IOError">>,
     <<"std::out_of_range",      "IndexError">>,
     <<"std::overflow_error",    "OverflowError">>,
     <<"std::range_error",       "ArithmeticError">>,
     <<"std::underflow_error",   "ArithmeticError">> >>

\* The handlers of CppExn2PyErr in source order (lines 30-51).
CatchClauses ==
  << <<"std::bad_alloc",         "MemoryError">>,
     <<"std::bad_cast",          "TypeError">>,
     <<"std::bad_typeid",        "TypeError">>,
     <<"std::domain_error",      "ValueError">>,
     <<"std::invalid_argument",  "ValueError">>,
     <<"std::ios_base::failure", "IOError">>,
     <<"std::out_of_range",      "IndexError">>,
     <<"std::overflow_error",    "OverflowError">>,
     <<"std::range_error",       "ArithmeticError">>,
     <<"std::underflow_error",   "ArithmeticError">>,
     <<"std::exception",         "RuntimeError">> >>

\* First handler that matches, else the catch (...) of lines 53-56.
RECURSIVE SelectHandler(_, _)
SelectHandler(exn, i) ==
  IF i > Len(CatchClauses)
    THEN [type |-> "RuntimeError", msg |-> "Unknown exception"]
  ELSE IF IsA(exn.kind, CatchClauses[i][1])
    THEN [type |-> CatchClauses[i][2], msg |-> exn.what]
  ELSE SelectHandler(exn, i + 1)

\* Variant: the bridge installs the new error even when one is pending.
CppExn2PyErr_overwrite(err, exn) ==
  IF exn = NoExn
    THEN [pyErr |-> err, terminated |-> err = NoErr]
    ELSE [pyErr |-> SelectHandler(exn, 1), terminated |-> FALSE]

\* Variant: a rethrow with nothing to rethrow is caught by catch (...).
CppExn2PyErr_noterm(err, exn) ==
  IF err # NoErr
    THEN [pyErr |-> err, terminated |-> FALSE]
  ELSE IF exn = NoExn
    THEN [pyErr |-> [type |-> "RuntimeError", msg |-> "Unknown exception"],
          terminated |-> FALSE]
  ELSE [pyErr |-> SelectHandler(exn, 1), terminated |-> FALSE]

\* CppExn2PyErr (lines 24-57).  err is the host's pending error, exn the
\* exception being handled (NoExn when called outside a handler).  `throw;`
\* with no exception being handled calls std::terminate.
CppExn2PyErr(err, exn) ==
  IF err # NoErr
    THEN [pyErr |-> err, terminated |-> FALSE]
  ELSE IF exn = NoExn
    THEN [pyErr |-> err, terminated |-> TRUE]
  ELSE [pyErr |-> SelectHandler(exn, 1), terminated |-> FALSE]


\* --------------------------------------------------------------- buffers
\* Width tags with a case in LIST_OF_CASES (lines 59-63) and their element
\* types; "RF_INVALID" stands for any tag value outside the enumeration.
ElemType(kind) ==
  CASE kind = "RF_UINT8"  -> "uint8_t"
    [] kind = "RF_UINT16" -> "uint16_t"
    [] kind = "RF_UINT32" -> "uint32_t"
    [] kind = "RF_UINT64" -> "uint64_t"
    [] OTHER              -> "none"

Kinds == {"RF_UINT8", "RF_UINT16", "RF_UINT32", "RF_UINT64"}
AnyKind == Kinds \cup {"RF_INVALID"}

\* RF_String values handed to the boundary functions (kind and length).
Buffers == [kind : AnyKind, length : {MaxLen}]

\* visit (lines 125-139): reads str.kind, then either calls f with the typed
\* range [data, data + length) or throws std::logic_error.
visit(str) ==
  IF ElemType(str.kind) # "none"
    THEN [exn |-> NoExn, type |-> ElemType(str.kind), count |-> str.length]
    ELSE [exn |-> [kind |-> "std::logic_error", what |-> "Invalid string type"],
          type |-> "none", count |-> 0]

\* ------------------------------------------------- black-box algorithm
\* Exceptions the external algorithm (constructor, ratio) may raise.
ExnPool ==
  {[kind |-> k, what |-> "m1"] : k \in StdKinds}
    \cup {[kind |-> "std::runtime_error", what |-> "Unknown exception"],
          [kind |-> "foreign", what |-> ""]}

\* The failures drawn for the algorithm's constructor and ratio().
AlgoExns ==
  {[kind |-> "std::bad_alloc", what |-> "m1"],
   [kind |-> "std::invalid_argument", what |-> "m1"],
   [kind |-> "std::out_of_range", what |-> "m1"],
   [kind |-> "std::runtime_error", what |-> "Unknown exception"],
   [kind |-> "foreign", what |-> ""]}

\* Scores and cutoffs in percent; the cutoff 200 is above every score.
Scores == {0, 50, 100}
Cutoffs == {0, 200}

Ok(v) == [exn |-> NoExn, score |-> v]
Throw(e) == [exn |-> e, score |-> 0]
RatioOutcomes == {Ok(v) : v \in Scores} \cup {Throw(e) : e \in AlgoExns}
CtorOutcomes == {Ok(0)} \cup {Throw(e) : e \in AlgoExns}

\* ------------------------------------------------------- scorer context
NumSlots == 1
Slots == 1..NumSlots
InstIds == 1..NumSlots
NullFunc == [context |-> 0, call |-> "null", dtor |-> "null"]

\* Variant: the storage of an instance whose constructor threw is kept.
NewCachedScorer_leak(h, id, outcome) ==
  [heap |-> [h EXCEPT ![id] = "live"],
   ptr |-> IF outcome.exn = NoExn THEN id ELSE 0, exn |-> outcome.exn]

\* new CachedScorer<Sentence>(str, args...) (line 254) on the heap h, the
\* storage obtained being id.  A constructor that throws has its storage
\* released by the new-expression before the exception propagates.
NewCachedScorer(h, id, outcome) ==
  IF outcome.exn = NoExn
    THEN [heap |-> [h EXCEPT ![id] = "live"], ptr |-> id, exn |-> NoExn]
    ELSE [heap |-> h, ptr |-> 0, exn |-> outcome.exn]

\* get_ScorerContext_f64 (lines 250-259) for the element type ty.
get_ScorerContext_f64(h, id, ty, outcome) ==
  LET n == NewCachedScorer(h, id, outcome)
  IN [heap |-> n.heap, exn |-> n.exn,
      context |-> [context |-> n.ptr,
                   call |-> <<"scorer_func_wrapper_f64", ty>>,
                   dtor |-> <<"scorer_deinit", ty>>]]

\* Variant: str_count is not checked.
scorer_init_f64_anyCount(self, err, h, id, str_count, str, outcome) ==
  LET v == visit(str)
      c == get_ScorerContext_f64(h, id, v.type, outcome)
      exn == IF v.exn # NoExn THEN v.exn ELSE c.exn
      b == CppExn2PyErr(err, exn)
  IN IF exn # NoExn
       THEN [ret |-> FALSE, self |-> self,
             heap |-> IF v.exn # NoExn THEN h ELSE c.heap,
             pyErr |-> b.pyErr, terminated |-> b.terminated, exn |-> exn,
             bufRead |-> TRUE, allocs |-> IF v.exn # NoExn THEN 0 ELSE 1,
             bridgeCalls |-> 1, escaped |-> FALSE]
       ELSE [ret |-> TRUE, self |-> c.context, heap |-> c.heap,
             pyErr |-> err, terminated |-> FALSE, exn |-> NoExn,
             bufRead |-> TRUE, allocs |-> 1, bridgeCalls |-> 0,
             escaped |-> FALSE]

\* scorer_init_f64 (lines 261-280).  self: the caller's RF_ScorerFunc value,
\* err: the host's pending error, h: the heap, id: the storage the next
\* allocation returns.
scorer_init_f64(self, err, h, id, str_count, str, outcome) ==
  LET v == visit(str)
      c == get_ScorerContext_f64(h, id, v.type, outcome)
      body ==
        IF str_count # 1
          THEN [exn |-> [kind |-> "std::logic_error",
                         what |-> "Only str_count == 1 supported"],
                self |-> self, heap |-> h, bufRead |-> FALSE, allocs |-> 0]
        ELSE IF v.exn # NoExn
          THEN [exn |-> v.exn, self |-> self, heap |-> h,
                bufRead |-> TRUE, allocs |-> 0]
        ELSE IF c.exn # NoExn
          THEN [exn |-> c.exn, self |-> self, heap |-> c.heap,
                bufRead |-> TRUE, allocs |-> 1]
        ELSE [exn |-> NoExn, self |-> c.context, heap |-> c.heap,
              bufRead |-> TRUE, allocs |-> 1]
      b == CppExn2PyErr(err, body.exn)
  IN IF body.exn # NoExn
       THEN [ret |-> FALSE, self |-> body.self, heap |-> body.heap,
             pyErr |-> b.pyErr, terminated |-> b.terminated,
             exn |-> body.exn, bufRead |-> body.bufRead,
             allocs |-> body.allocs, bridgeCalls |-> 1, escaped |-> FALSE]
       ELSE [ret |-> TRUE, self |-> body.self, heap |-> body.heap,
             pyErr |-> err, terminated |-> FALSE,
             exn |-> NoExn, bufRead |-> body.bufRead,
             allocs |-> body.allocs, bridgeCalls |-> 0, escaped |-> FALSE]

\* Variant: only std::exception is caught, and the catch block returns
\* without calling the bridge.
scorer_func_wrapper_f64_noBridge(err, out, str, outcome) ==
  LET v == visit(str)
      thrown == IF v.exn # NoExn THEN v.exn ELSE outcome.exn
  IN IF thrown # NoExn
       THEN [ret |-> FALSE, result |-> out, pyErr |-> err,
             terminated |-> FALSE, exn |-> thrown, bridgeCalls |-> 0,
             escaped |-> thrown.kind = "foreign"]
       ELSE [ret |-> TRUE, result |-> outcome.score, pyErr |-> err,
             terminated |-> FALSE, exn |-> NoExn, bridgeCalls |-> 0,
             escaped |-> FALSE]

\* Variant: a successful call leaves *result unwritten.
scorer_func_wrapper_f64_noWrite(err, out, str, outcome) ==
  LET v == visit(str)
      thrown == IF v.exn # NoExn THEN v.exn ELSE outcome.exn
      b == CppExn2PyErr(err, thrown)
  IN [ret |-> thrown = NoExn, result |-> out,
      pyErr |-> IF thrown # NoExn THEN b.pyErr ELSE err,
      terminated |-> IF thrown # NoExn THEN b.terminated ELSE FALSE,
      exn |-> thrown, bridgeCalls |-> IF thrown # NoExn THEN 1 ELSE 0,
      escaped |-> FALSE]

\* Variant: the catch block rethrows after the bridge has run.
scorer_func_wrapper_f64_rethrow(err, out, str, outcome) ==
  LET v == visit(str)
      thrown == IF v.exn # NoExn THEN v.exn ELSE outcome.exn
      b == CppExn2PyErr(err, thrown)
  IN [ret |-> thrown = NoExn,
      result |-> IF thrown # NoExn THEN out ELSE outcome.score,
      pyErr |-> IF thrown # NoExn THEN b.pyErr ELSE err,
      terminated |-> IF thrown # NoExn THEN b.terminated ELSE FALSE,
      exn |-> thrown, bridgeCalls |-> IF thrown # NoExn THEN 1 ELSE 0,
      escaped |-> thrown # NoExn]

\* scorer_func_wrapper_f64 (lines 233-248).  out: the value in *result.
\* The assignment to *result happens only after visit has returned; the
\* catch (...) block handles every exception, so none escapes.
scorer_func_wrapper_f64(err, out, str, outcome) ==
  LET v == visit(str)
      thrown == IF v.exn # NoExn THEN v.exn ELSE outcome.exn
      b == CppExn2PyErr(err, thrown)
  IN IF thrown # NoExn
       THEN [ret |-> FALSE, result |-> out, pyErr |-> b.pyErr,
             terminated |-> b.terminated, exn |-> thrown, bridgeCalls |-> 1,
             escaped |-> FALSE]
       ELSE [ret |-> TRUE, result |-> outcome.score, pyErr |-> err,
             terminated |-> FALSE, exn |-> NoExn, bridgeCalls |-> 0,
             escaped |-> FALSE]

\* Variant: the instance is not deleted.
scorer_deinit_leak(self, h, fr) == [self |-> self, heap |-> h, frees |-> fr]

\* Variant: the context pointer is nulled after the delete.
scorer_deinit_nullsContext(self, h, fr) ==
  [self |-> [self EXCEPT !.context = 0],
   heap |-> [h EXCEPT ![self.context] = "freed"],
   frees |-> [fr EXCEPT ![self.context] = @ + 1]]

\* scorer_deinit (lines 227-231): delete (CachedScorer*)self->context.
scorer_deinit(self, h, fr) ==
  [self |-> self,
   heap |-> [h EXCEPT ![self.context] = "freed"],
   frees |-> [fr EXCEPT ![self.context] = @ + 1]]


\* ----------------------------------------------------- RF_StringWrapper
NumWrappers == 2
NumBufs == 2
NumOwners == 2
Wrappers == 1..NumWrappers
WBufs == 1..NumBufs           \* data pointers of the buffers; 0 is nullptr
Owners == 1..NumOwners        \* PyObject pointers; 0 is nullptr
InitRef == 1                  \* references the host itself holds on an owner

\* {nullptr, (RF_StringType)0, nullptr, 0, nullptr} with obj(nullptr)
\* (lines 70-71, 99-100); RF_UINT8 is the enumerator of value 0.
EmptyString ==
  [dtor |-> "null", kind |-> "RF_UINT8", data |-> 0, length |-> 0, context |-> 0]
Sentinel == [string |-> EmptyString, obj |-> 0]

\* RF_String values a host hands to a wrapper constructor.
WStrings ==
  [dtor : {"null", "default_string_deinit"}, kind : {"RF_UINT32"},
   data : WBufs, length : {MaxLen}, context : {0}]

\* RF_StringWrapper(RF_String) (lines 73-74).
Wrap(string_) == [string |-> string_, obj |-> 0]

\* RF_StringWrapper(RF_String, PyObject*) (lines 76-80): the fields, and the
\* reference counts after Py_XINCREF(obj).
WrapOwner(string_, o) == [string |-> string_, obj |-> o]
Py_XINCREF(rc, o) == IF o = 0 THEN rc ELSE [rc EXCEPT ![o] = @ + 1]
Py_XDECREF(rc, o) == IF o = 0 THEN rc ELSE [rc EXCEPT ![o] = @ - 1]

\* string.dtor(&string) when string.dtor is set (lines 93-95, 106-108): the
\* callback runs once on the buffer the string points to.
CallDtor(rel, string) ==
  IF string.dtor = "null" THEN rel ELSE [rel EXCEPT ![string.data] = @ + 1]

\* Variant: the owner reference is released before the callback runs.
GiveUpEvents_decrefFirst(w) ==
  (IF w.obj = 0 THEN <<>> ELSE << <<"decref", w.obj>> >>)
    \o (IF w.string.dtor = "null" THEN <<>> ELSE << <<"release", w.string.data>> >>)

\* The calls a wrapper makes when it gives up what it holds, in program
\* order (lines 93-96 and 106-109).
GiveUpEvents(w) ==
  (IF w.string.dtor = "null" THEN <<>> ELSE << <<"release", w.string.data>> >>)
    \o (IF w.obj = 0 THEN <<>> ELSE << <<"decref", w.obj>> >>)

\* Variant: only the string is swapped.
swap_stringOnly(first, second) ==
  [first  |-> [string |-> second.string, obj |-> first.obj],
   second |-> [string |-> first.string,  obj |-> second.obj]]

\* swap (lines 112-117): the pair (first, second) after the call.
swap(first, second) ==
  [first  |-> [string |-> second.string, obj |-> second.obj],
   second |-> [string |-> first.string,  obj |-> first.obj]]

\* Move constructor (lines 85-89): delegates to the default constructor, then
\* swaps with other.
MoveCtor(other) ==
  LET s == swap(Sentinel, other)
  IN [this |-> s.first, other |-> s.second]

\* Variant: the source keeps its fields after the assignment.
MoveAssignOp_noreset(this, other, same, rel, rc) ==
  IF same
    THEN [this |-> this, other |-> other, released |-> rel, refcnt |-> rc,
          events |-> <<>>]
    ELSE [this |-> [string |-> other.string, obj |-> other.obj],
          other |-> other,
          released |-> CallDtor(rel, this.string),
          refcnt |-> Py_XDECREF(rc, this.obj),
          events |-> GiveUpEvents(this)]

\* Variant: the destination adopts the source's fields first and releases
\* afterwards.
MoveAssignOp_adoptFirst(this, other, same, rel, rc) ==
  IF same
    THEN [this |-> this, other |-> other, released |-> rel, refcnt |-> rc,
          events |-> <<>>]
    ELSE [this |-> [string |-> other.string, obj |-> other.obj],
          other |-> Sentinel,
          released |-> CallDtor(rel, other.string),
          refcnt |-> Py_XDECREF(rc, other.obj),
          events |-> GiveUpEvents(other)]

\* Move assignment (lines 91-103); same is `&other == this`.
MoveAssignOp(this, other, same, rel, rc) ==
  IF same
    THEN [this |-> this, other |-> other, released |-> rel, refcnt |-> rc,
          events |-> <<>>]
    ELSE [this |-> [string |-> other.string, obj |-> other.obj],
          other |-> Sentinel,
          released |-> CallDtor(rel, this.string),
          refcnt |-> Py_XDECREF(rc, this.obj),
          events |-> GiveUpEvents(this)]

\* Variant: the destructor does not release the owner reference.
Dtor_noDecref(this, rel, rc) ==
  [released |-> CallDtor(rel, this.string),
   refcnt |-> rc,
   events |-> GiveUpEvents(this)]

\* Destructor (lines 105-110).
Dtor(this, rel, rc) ==
  [released |-> CallDtor(rel, this.string),
   refcnt |-> Py_XDECREF(rc, this.obj),
   events |-> GiveUpEvents(this)]


\* ------------------------------------------------------------------ state
VARIABLES
  pyErr,       \* the host's pending error (PyErr_Occurred), NoErr if none
  terminated,  \* std::terminate has been called
  slots,       \* the callers' RF_ScorerFunc objects
  phase,       \* per slot: "Uninitialized", "Built" or "Destroyed"
  heap,        \* per algorithm instance: "unalloc", "live" or "freed"
  frees,       \* per algorithm instance: number of deletes
  result,      \* the value in the caller's output slot (*result)
  last,        \* what the most recent boundary call did
  wr,          \* per wrapper: its fields (string, obj)
  wstate,      \* per wrapper: "none", "live" or "dead"
  released,    \* per buffer: number of calls of its release callback
  refcnt,      \* per owner object: its reference count
  handed,      \* <<data, dtor>> of the buffers handed to a wrapper constructor
  movedFrom,   \* wrappers moved from and not assigned to since
  wlast,       \* what the most recent wrapper operation did
  dlast,       \* what the most recent dispatch or conversion did
  gil,         \* the thread holding the host's runtime lock, 0 if free
  wk           \* per worker thread: where it is in its current call

svars == <<pyErr, terminated, slots, phase, heap, frees, result, last>>
wvars == <<wr, wstate, released, refcnt, handed, movedFrom, wlast>>
xvars == <<dlast, gil, wk>>
vars == <<pyErr, terminated, slots, phase, heap, frees, result, last,
          wr, wstate, released, refcnt, handed, movedFrom, wlast,
          dlast, gil, wk>>

Call(op, n, r) ==
  [op |-> op, strCount |-> n, exn |-> r.exn, ret |-> r.ret,
   bufRead |-> r.bufRead, allocs |-> r.allocs, bridgeCalls |-> r.bridgeCalls,
   escaped |-> r.escaped, cutoff |-> 0, score |-> 0]

NoCall(op) ==
  [op |-> op, strCount |-> 0, exn |-> NoExn, ret |-> TRUE,
   bufRead |-> FALSE, allocs |-> 0, bridgeCalls |-> 0, escaped |-> FALSE,
   cutoff |-> 0, score |-> 0]

NoWOp == [op |-> "none", w |-> 0, src |-> 0, events |-> <<>>]

SInit ==
  /\ pyErr = NoErr
  /\ terminated = FALSE
  /\ slots = [s \in Slots |-> NullFunc]
  /\ phase = [s \in Slots |-> "Uninitialized"]
  /\ heap = [i \in InstIds |-> "unalloc"]
  /\ frees = [i \in InstIds |-> 0]
  /\ result = -1
  /\ last = NoCall("none")

WInit ==
  /\ wr = [w \in Wrappers |-> Sentinel]
  /\ wstate = [w \in Wrappers |-> "none"]
  /\ released = [b \in WBufs |-> 0]
  /\ refcnt = [o \in Owners |-> InitRef]
  /\ handed = {}
  /\ movedFrom = {}
  /\ wlast = NoWOp

NoDispatch ==
  [op |-> "none", in |-> <<>>, exn |-> NoExn, reads |-> <<>>, calls |-> <<>>,
   ret |-> <<>>]

XInit ==
  /\ dlast = NoDispatch
  /\ gil = 0
  /\ wk = <<>>

Init == SInit /\ WInit /\ XInit

\* The storage the next allocation returns.
FreshInst == CHOOSE i \in InstIds : heap[i] = "unalloc" /\ \A j \in InstIds : heap[j] = "unalloc" => i <= j

\* --------------------------------------------------------- host actions
\* The host calls the scorer's init function on a slot it has not built.
Build(s) ==
  /\ ~terminated
  /\ phase[s] = "Uninitialized"
  /\ \E n \in 0..MaxCount, str \in Buffers, outcome \in CtorOutcomes :
       LET r == scorer_init_f64(slots[s], pyErr, heap, FreshInst, n, str, outcome)
       IN /\ slots' = [slots EXCEPT ![s] = r.self]
          /\ heap' = r.heap
          /\ pyErr' = r.pyErr
          /\ terminated' = r.terminated
          /\ phase' = [phase EXCEPT ![s] = IF r.ret THEN "Built" ELSE @]
          /\ last' = Call("build", n, r)
  /\ UNCHANGED <<frees, result>>
  /\ UNCHANGED <<wvars, xvars>>

\* The host calls self->call.f64 on a built slot.
Compute(s) ==
  /\ ~terminated
  /\ phase[s] = "Built"
  /\ \E str \in Buffers, cutoff \in Cutoffs, outcome \in RatioOutcomes :
       LET r == scorer_func_wrapper_f64(pyErr, result, str, outcome)
       IN /\ result' = r.result
          /\ pyErr' = r.pyErr
          /\ terminated' = r.terminated
          /\ last' = [op |-> "compute", strCount |-> 1, exn |-> r.exn,
                      ret |-> r.ret, bufRead |-> TRUE, allocs |-> 0,
                      bridgeCalls |-> r.bridgeCalls, escaped |-> r.escaped,
                      cutoff |-> cutoff, score |-> outcome.score]
  /\ UNCHANGED <<slots, phase, heap, frees>>
  /\ UNCHANGED <<wvars, xvars>>

\* The host calls self->dtor on a built slot, once.
Destroy(s) ==
  /\ ~terminated
  /\ phase[s] = "Built"
  /\ LET r == scorer_deinit(slots[s], heap, frees)
     IN /\ heap' = r.heap
        /\ frees' = r.frees
        /\ slots' = [slots EXCEPT ![s] = r.self]
  /\ phase' = [phase EXCEPT ![s] = "Destroyed"]
  /\ last' = NoCall("destroy")
  /\ UNCHANGED <<pyErr, terminated, result>>
  /\ UNCHANGED <<wvars, xvars>>

\* CppExn2PyErr called directly: inside a handler for exception e, or with
\* no exception being handled (e = NoExn).
BridgeCall ==
  /\ ~terminated
  /\ \E e \in ExnPool \cup {NoExn} :
       LET b == CppExn2PyErr(pyErr, e)
       IN /\ pyErr' = b.pyErr
          /\ terminated' = b.terminated
          /\ last' = [op |-> "bridge", strCount |-> 0, exn |-> e, ret |-> TRUE,
                      bufRead |-> FALSE, allocs |-> 0, bridgeCalls |-> 1,
                      escaped |-> FALSE, cutoff |-> 0, score |-> 0]
  /\ UNCHANGED <<slots, phase, heap, frees, result>>
  /\ UNCHANGED <<wvars, xvars>>

\* A host API call fails and leaves its own error pending (the case of
\* PyUnicode_READY, lines 162-165).
HostError == [type |-> "MemoryError", msg |-> "host"]
HostRaise ==
  /\ ~terminated
  /\ pyErr = NoErr
  /\ pyErr' = HostError
  /\ last' = NoCall("raise")
  /\ UNCHANGED <<terminated, slots, phase, heap, frees, result>>
  /\ UNCHANGED <<wvars, xvars>>

\* The host consumes the pending error after a call reported failure.
HostClear ==
  /\ ~terminated
  /\ pyErr # NoErr
  /\ pyErr' = NoErr
  /\ last' = NoCall("clear")
  /\ UNCHANGED <<terminated, slots, phase, heap, frees, result>>
  /\ UNCHANGED <<wvars, xvars>>

Next ==
  \/ \E s \in Slots : Build(s)
  \/ \E s \in Slots : Compute(s)
  \/ \E s \in Slots : Destroy(s)
  \/ HostRaise
  \/ HostClear

Spec == Init /\ [][Next]_vars

\* The bridge on its own: every exception class, inside and outside a handler.
NextB ==
  \/ BridgeCall
  \/ HostRaise
  \/ HostClear

SpecB == Init /\ [][NextB]_vars


\* ------------------------------------------------ wrapper host actions
WOp(op, w, src, ev) == [op |-> op, w |-> w, src |-> src, events |-> ev]

\* RF_StringWrapper w; (line 70).
DefaultConstruct(w) ==
  /\ wstate[w] = "none"
  /\ wr' = [wr EXCEPT ![w] = Sentinel]
  /\ wstate' = [wstate EXCEPT ![w] = "live"]
  /\ wlast' = WOp("default_ctor", w, 0, <<>>)
  /\ UNCHANGED <<released, refcnt, handed, movedFrom>>
  /\ UNCHANGED <<svars, xvars>>

\* RF_StringWrapper w(string_); the buffer has not been handed out before.
Construct(w) ==
  /\ wstate[w] = "none"
  /\ \E string_ \in WStrings :
       /\ \A h \in handed : h[1] # string_.data
       /\ wr' = [wr EXCEPT ![w] = Wrap(string_)]
       /\ handed' = handed \cup {<<string_.data, string_.dtor>>}
  /\ wstate' = [wstate EXCEPT ![w] = "live"]
  /\ wlast' = WOp("ctor", w, 0, <<>>)
  /\ UNCHANGED <<released, refcnt, movedFrom>>
  /\ UNCHANGED <<svars, xvars>>

\* RF_StringWrapper w(string_, o); o may be nullptr.
ConstructOwner(w) ==
  /\ wstate[w] = "none"
  /\ \E string_ \in WStrings, o \in Owners \cup {0} :
       /\ \A h \in handed : h[1] # string_.data
       /\ wr' = [wr EXCEPT ![w] = WrapOwner(string_, o)]
       /\ refcnt' = Py_XINCREF(refcnt, o)
       /\ handed' = handed \cup {<<string_.data, string_.dtor>>}
  /\ wstate' = [wstate EXCEPT ![w] = "live"]
  /\ wlast' = WOp("ctor_owner", w, 0, <<>>)
  /\ UNCHANGED <<released, movedFrom>>
  /\ UNCHANGED <<svars, xvars>>

\* RF_StringWrapper w(std::move(src));
MoveConstruct(w, src) ==
  /\ wstate[w] = "none"
  /\ wstate[src] = "live"
  /\ LET m == MoveCtor(wr[src])
     IN wr' = [wr EXCEPT ![w] = m.this, ![src] = m.other]
  /\ wstate' = [wstate EXCEPT ![w] = "live"]
  /\ movedFrom' = movedFrom \cup {src}
  /\ wlast' = WOp("move_ctor", w, src, <<>>)
  /\ UNCHANGED <<released, refcnt, handed>>
  /\ UNCHANGED <<svars, xvars>>

\* w = std::move(src); src may be w itself.
MoveAssign(w, src) ==
  /\ wstate[w] = "live"
  /\ wstate[src] = "live"
  /\ LET m == MoveAssignOp(wr[w], wr[src], w = src, released, refcnt)
     IN /\ wr' = IF w = src THEN [wr EXCEPT ![w] = m.this]
                 ELSE [wr EXCEPT ![w] = m.this, ![src] = m.other]
        /\ released' = m.released
        /\ refcnt' = m.refcnt
        /\ wlast' = WOp("move_assign", w, src, m.events)
  /\ movedFrom' = IF w = src THEN movedFrom ELSE (movedFrom \ {w}) \cup {src}
  /\ UNCHANGED <<wstate, handed>>
  /\ UNCHANGED <<svars, xvars>>

\* w goes out of scope: ~RF_StringWrapper runs once.
DestroyWrapper(w) ==
  /\ wstate[w] = "live"
  /\ LET d == Dtor(wr[w], released, refcnt)
     IN /\ released' = d.released
        /\ refcnt' = d.refcnt
        /\ wlast' = WOp("destroy", w, 0, d.events)
  /\ wstate' = [wstate EXCEPT ![w] = "dead"]
  /\ UNCHANGED <<wr, handed, movedFrom>>
  /\ UNCHANGED <<svars, xvars>>

NextW ==
  \/ \E w \in Wrappers : DefaultConstruct(w)
  \/ \E w \in Wrappers : Construct(w)
  \/ \E w \in Wrappers : ConstructOwner(w)
  \/ \E w, src \in Wrappers : MoveConstruct(w, src)
  \/ \E w, src \in Wrappers : MoveAssign(w, src)
  \/ \E w \in Wrappers : DestroyWrapper(w)

SpecW == Init /\ [][NextW]_vars


\* ================================================================ claims
InvalidTag == [kind |-> "std::logic_error", what |-> "Invalid string type"]
NotSupported == [type |-> "RuntimeError", msg |-> "Only str_count == 1 supported"]
UnknownErr == [type |-> "RuntimeError", msg |-> "Unknown exception"]

\* C1: a compute call in which dispatching the query buffer or the scoring
\* operation raises an exception keeps the exception inside compute, returns
\* false, leaves the output slot as it was and returns with a host error
\* pending.
C1_ComputeFailure ==
  [][(last'.op = "compute" /\ last'.exn # NoExn) =>
       /\ ~last'.escaped
       /\ ~terminated'
       /\ last'.ret = FALSE
       /\ result' = result
       /\ pyErr' # NoErr]_vars

\* A compute on a query buffer with an invalid width tag failed after an
\* earlier compute had written a score to the output slot.
C1_Witness ==
  /\ last.op = "compute"
  /\ last.exn = InvalidTag
  /\ last.ret = FALSE
  /\ result \in Scores
  /\ pyErr = [type |-> "RuntimeError", msg |-> "Invalid string type"]

\* C2 (as amended): build_context with str_count other than 1 returns false
\* without allocating, without reading the buffer and without touching the
\* caller's ScorerFunc; the host error pending afterwards is the
\* not-supported error if none was pending at the call, and otherwise the
\* error that was already pending.
C2_CountRejected ==
  [][(last'.op = "build" /\ last'.strCount # 1) =>
       /\ last'.ret = FALSE
       /\ last'.allocs = 0
       /\ ~last'.bufRead
       /\ heap' = heap
       /\ slots' = slots
       /\ pyErr' = IF pyErr = NoErr THEN NotSupported ELSE pyErr]_vars

\* C2 as stated: the host error after the call is always the not-supported
\* error.
C2_Original ==
  [][(last'.op = "build" /\ last'.strCount # 1) =>
       /\ last'.ret = FALSE
       /\ last'.allocs = 0
       /\ ~last'.bufRead
       /\ heap' = heap
       /\ slots' = slots
       /\ pyErr' = NotSupported]_vars

\* A build with str_count 2 was rejected with the not-supported error.
C2_Witness ==
  /\ last.op = "build"
  /\ last.strCount = 2
  /\ last.ret = FALSE
  /\ pyErr = NotSupported

\* Every live algorithm instance is the context of a built slot.
LiveOwned ==
  \A i \in InstIds :
    heap[i] = "live" => \E s \in Slots : phase[s] = "Built" /\ slots[s].context = i

\* C3: whenever build_context returns false, the heap holds no instance it
\* did not hold before, the caller's ScorerFunc is unchanged and a host error
\* is pending.
C3_BuildFailure ==
  [][(last'.op = "build" /\ ~last'.ret) =>
       /\ heap' = heap
       /\ LiveOwned'
       /\ slots' = slots
       /\ pyErr' # NoErr]_vars

\* A build failed because the algorithm's constructor threw, after the
\* storage had been allocated.
C3_Witness ==
  /\ last.op = "build"
  /\ ~last.ret
  /\ last.allocs = 1
  /\ last.exn \in AlgoExns
  /\ \A i \in InstIds : heap[i] # "live"

\* C4: a pending host error is changed by nothing but the host clearing it,
\* whatever internal exception the bridge is given; with no error pending an
\* out-of-range exception installs IndexError.
C4_FirstFailureWins ==
  [][/\ (pyErr # NoErr /\ last'.op # "clear") => pyErr' = pyErr
     /\ (pyErr = NoErr /\ last'.bridgeCalls = 1
           /\ last'.exn.kind = "std::out_of_range")
          => (pyErr'.type = "IndexError" /\ pyErr'.msg = last'.exn.what)]_vars

\* A failing call ran the bridge on an exception while an IndexError from an
\* earlier failure was pending, and the IndexError is still the pending one.
C4_Witness ==
  /\ last.bridgeCalls = 1
  /\ last.exn # NoExn
  /\ last.exn.kind # "std::out_of_range"
  /\ pyErr.type = "IndexError"

\* The classification table of the claim, by exception class.
ExpectedType(k) ==
  CASE k = "std::bad_alloc"         -> "MemoryError"
    [] k = "std::bad_cast"          -> "TypeError"
    [] k = "std::bad_typeid"        -> "TypeError"
    [] k = "PythonTypeError"        -> "TypeError"
    [] k = "std::invalid_argument"  -> "ValueError"
    [] k = "std::domain_error"      -> "ValueError"
    [] k = "std::ios_base::failure" -> "IOError"
    [] k = "std::out_of_range"      -> "IndexError"
    [] k = "std::overflow_error"    -> "OverflowError"
    [] k = "std::underflow_error"   -> "ArithmeticError"
    [] k = "std::range_error"       -> "ArithmeticError"
    [] OTHER                        -> "RuntimeError"

\* The HostErrorCategory a host exception type stands for.
Category(t) ==
  CASE t = "MemoryError"     -> "out-of-memory"
    [] t = "TypeError"       -> "type-mismatch"
    [] t = "ValueError"      -> "value-domain"
    [] t = "IOError"         -> "io-failure"
    [] t = "IndexError"      -> "index-out-of-range"
    [] t = "OverflowError"   -> "arithmetic-range"
    [] t = "ArithmeticError" -> "arithmetic-range"
    [] t = "RuntimeError"    -> "generic-runtime"
    [] OTHER                 -> "none"

ExpectedError(e) ==
  IF e.kind = "foreign" THEN UnknownErr
  ELSE [type |-> ExpectedType(e.kind), msg |-> e.what]

\* C5 (as amended): with no host error pending the bridge installs, for each
\* exception class, the host error type of the table with the exception's
\* message; a foreign exception installs RuntimeError with the fixed message
\* "Unknown exception", the same host error type as any other
\* std::exception.
C5_Classification ==
  [][(pyErr = NoErr /\ last'.bridgeCalls = 1 /\ last'.exn # NoExn) =>
       /\ pyErr' = ExpectedError(last'.exn)
       /\ Category(pyErr'.type) # "none"
       /\ (last'.exn.kind = "foreign" =>
             Category(pyErr'.type) = "generic-runtime")]_vars

\* C5 as stated: the table holds and the host error installed for a
\* std::exception-derived failure is never the one installed for a foreign
\* failure.
C5_Original ==
  [][(pyErr = NoErr /\ last'.bridgeCalls = 1 /\ last'.exn # NoExn) =>
       /\ last'.exn.kind # "foreign" =>
            /\ pyErr'.type = ExpectedType(last'.exn.kind)
            /\ pyErr'.msg = last'.exn.what
            /\ pyErr' # CppExn2PyErr(NoErr, [kind |-> "foreign", what |-> ""]).pyErr
       /\ last'.exn.kind = "foreign" =>
            pyErr' = UnknownErr]_vars

\* The bridge classified a PythonTypeError as TypeError.
C5_Witness ==
  /\ last.op = "bridge"
  /\ last.exn.kind = "PythonTypeError"
  /\ pyErr = [type |-> "TypeError", msg |-> "m1"]

\* C6 (as amended): the bridge invoked with no host error pending and no
\* exception being handled terminates the process and installs no host
\* error.
C6_NoExceptionTerminates ==
  [][(last'.op = "bridge" /\ last'.exn = NoExn /\ pyErr = NoErr) =>
       (terminated' /\ pyErr' = NoErr)]_vars

\* C6 as stated: the bridge then returns normally with an "unknown" host
\* error installed.
C6_Original ==
  [][(last'.op = "bridge" /\ last'.exn = NoExn /\ pyErr = NoErr) =>
       (~terminated' /\ pyErr' = UnknownErr)]_vars

\* The bridge was called outside a handler with nothing pending.
C6_Witness ==
  /\ last.op = "bridge"
  /\ last.exn = NoExn
  /\ pyErr = NoErr
  /\ terminated

\* The state of the instance a slot refers to follows the slot's phase.
LifecycleInv ==
  /\ \A s \in Slots :
       /\ phase[s] = "Uninitialized" => slots[s] = NullFunc
       /\ phase[s] = "Built" =>
            (heap[slots[s].context] = "live" /\ frees[slots[s].context] = 0)
       /\ phase[s] = "Destroyed" =>
            (heap[slots[s].context] = "freed" /\ frees[slots[s].context] = 1)
  /\ \A s, t \in Slots :
       (s # t /\ phase[s] # "Uninitialized" /\ phase[t] # "Uninitialized")
         => slots[s].context # slots[t].context
  /\ Cardinality({i \in InstIds : heap[i] # "unalloc"})
       = Cardinality({s \in Slots : phase[s] # "Uninitialized"})
  /\ \A i \in InstIds : frees[i] <= 1

\* C10: a successful build allocates exactly one instance, the instance
\* stays allocated across every compute, and destroy frees it exactly once:
\* no instance is live once every built slot is destroyed and none is freed
\* twice.
C10_Lifecycle ==
  /\ []LifecycleInv
  /\ [][/\ (last'.op = "build" /\ last'.ret) =>
             Cardinality({i \in InstIds : heap'[i] = "live"})
               = Cardinality({i \in InstIds : heap[i] = "live"}) + 1
        /\ last'.op = "compute" => (heap' = heap /\ frees' = frees)
        /\ last'.op = "destroy" =>
             Cardinality({i \in InstIds : heap'[i] = "live"})
               = Cardinality({i \in InstIds : heap[i] = "live"}) - 1]_vars

\* Every slot was built, computed on (with success and with failure) and
\* destroyed.
C10_Witness ==
  /\ \A s \in Slots : phase[s] = "Destroyed"
  /\ \A i \in InstIds : heap[i] = "freed" /\ frees[i] = 1
  /\ result \in Scores
  /\ pyErr.msg = "Invalid string type"
  /\ last.op = "destroy"


NoLiveWrapper == \A w \in Wrappers : wstate[w] # "live"

\* C7: with every buffer handed to one wrapper constructor only, a buffer's
\* release callback has run at most once at every point, and exactly once
\* when no wrapper is alive any more.
C7_ReleaseOnce ==
  \A b \in WBufs :
    /\ released[b] <= 1
    /\ (NoLiveWrapper /\ <<b, "default_string_deinit">> \in handed)
         => released[b] = 1
    /\ <<b, "default_string_deinit">> \notin handed => released[b] = 0

\* Every buffer was handed to a wrapper with a release callback, wrappers
\* were moved, all wrappers are destroyed and each callback has run once.
C7_Witness ==
  /\ NoLiveWrapper
  /\ movedFrom # {}
  /\ wlast.op = "destroy"
  /\ \A b \in WBufs : <<b, "default_string_deinit">> \in handed /\ released[b] = 1

\* C8: an owner's reference count is its initial count plus the number of
\* live wrappers whose obj field refers to it; it is never below the initial
\* count and is the initial count when no wrapper is alive.
C8_OwnerRefcount ==
  \A o \in Owners :
    /\ refcnt[o] = InitRef
         + Cardinality({w \in Wrappers : wstate[w] = "live" /\ wr[w].obj = o})
    /\ refcnt[o] >= InitRef
    /\ NoLiveWrapper => refcnt[o] = InitRef

\* Two buffers were wrapped, a wrapper holding an owner was the destination
\* of a move, and all wrappers have been destroyed again.
C8_Witness ==
  /\ NoLiveWrapper
  /\ wlast.op = "destroy"
  /\ movedFrom # {}
  /\ Cardinality(handed) >= 2
  /\ \E w \in Wrappers : wstate[w] = "dead" /\ wr[w].obj # 0
  /\ \A o \in Owners : refcnt[o] = InitRef

\* C9: after a move construction or a move assignment between different
\* wrappers the destination holds what the source held and the source is
\* the sentinel; destroying a wrapper in its moved-from state calls no
\* release callback and changes no reference count.
C9_MoveResetsSource ==
  [][/\ (wlast'.op \in {"move_ctor", "move_assign"} /\ wlast'.w # wlast'.src) =>
          /\ wr'[wlast'.w] = wr[wlast'.src]
          /\ wr'[wlast'.src].string.data = 0
          /\ wr'[wlast'.src].string.length = 0
          /\ wr'[wlast'.src].string.dtor = "null"
          /\ wr'[wlast'.src].obj = 0
     /\ (wlast'.op = "destroy" /\ wlast'.w \in movedFrom) =>
          /\ released' = released
          /\ refcnt' = refcnt
          /\ wlast'.events = <<>>]_vars

\* A wrapper holding a buffer with a release callback and an owner was moved
\* from and then destroyed; the destination still holds both.
C9_Witness ==
  /\ wlast.op = "destroy"
  /\ wlast.w \in movedFrom
  /\ \E w \in Wrappers :
       /\ wstate[w] = "live"
       /\ wr[w].string.dtor # "null"
       /\ wr[w].obj # 0
       /\ released[wr[w].string.data] = 0
       /\ refcnt[wr[w].obj] = InitRef + 1
       /\ Cardinality(handed) = 1


\* =============================================================== dispatch
\* sizeof of the element types of LIST_OF_CASES, in bytes.
Sizeof(type) ==
  CASE type = "uint8_t"  -> 1
    [] type = "uint16_t" -> 2
    [] type = "uint32_t" -> 4
    [] type = "uint64_t" -> 8

\* RF_String values handed to visit and visitor: tag, address of the first
\* element (in bytes) and element count.
DBuffers == [kind : AnyKind, data : {8, 64}, length : 0..MaxLen]

\* Extra arguments forwarded to the callback.
ExtraArgs == {<<>>, <<"arg">>}

\* The callback f is a black box; what it returns is a function of what it
\* was called with.
CallbackResult(call) == <<"f", call>>

\* Variant: the end pointer is advanced by length bytes, not elements.
visit_f_byteEnd(str, args) ==
  LET v == visit(str)
      call == [type |-> v.type, first |-> str.data,
               last |-> str.data + v.count, args |-> args]
  IN IF v.exn # NoExn
       THEN [exn |-> v.exn, reads |-> <<str.kind>>, calls |-> <<>>, ret |-> <<>>]
       ELSE [exn |-> NoExn, reads |-> <<str.kind>>, calls |-> <<call>>,
             ret |-> CallbackResult(call)]

\* visit (lines 125-139) with its callback: in the case of str.kind,
\* data is cast to const type* and f(data, data + str.length, args...) is
\* called once and its result returned; otherwise std::logic_error.
visit_f(str, args) ==
  LET v == visit(str)
      call == [type |-> v.type, first |-> str.data,
               last |-> str.data + v.count * Sizeof(v.type), args |-> args]
  IN IF v.exn # NoExn
       THEN [exn |-> v.exn, reads |-> <<str.kind>>, calls |-> <<>>, ret |-> <<>>]
       ELSE [exn |-> NoExn, reads |-> <<str.kind>>, calls |-> <<call>>,
             ret |-> CallbackResult(call)]

\* Variant: str1 is dispatched first and its range is passed second.
visitor_swapped(str1, str2, args) ==
  LET v1 == visit(str1)
      begin_ == str1.data
      end_ == str1.data + v1.count * Sizeof(v1.type)
      inner == visit_f(str2, <<[type |-> v1.type, first |-> begin_, last |-> end_]>> \o args)
  IN IF v1.exn # NoExn
       THEN [exn |-> v1.exn, reads |-> <<str1.kind>>, calls |-> <<>>, ret |-> <<>>]
       ELSE [exn |-> inner.exn, reads |-> <<str1.kind>> \o inner.reads,
             calls |-> inner.calls, ret |-> inner.ret]

\* visitor (lines 141-149): visit on str2 with a continuation that, given
\* str2's typed range (first, last), visits str1 with f and passes first,
\* last and the extra arguments after str1's range.
visitor(str1, str2, args) ==
  LET v2 == visit(str2)
      begin_ == str2.data
      end_ == str2.data + v2.count * Sizeof(v2.type)
      inner == visit_f(str1, <<[type |-> v2.type, first |-> begin_, last |-> end_]>> \o args)
  IN IF v2.exn # NoExn
       THEN [exn |-> v2.exn, reads |-> <<str2.kind>>, calls |-> <<>>, ret |-> <<>>]
       ELSE [exn |-> inner.exn, reads |-> <<str2.kind>> \o inner.reads,
             calls |-> inner.calls, ret |-> inner.ret]

DOp(op, in, r) ==
  [op |-> op, in |-> in, exn |-> r.exn, reads |-> r.reads, calls |-> r.calls,
   ret |-> r.ret]

\* visit(str, f, args...) is called.
Dispatch ==
  /\ \E str \in DBuffers, args \in ExtraArgs :
       dlast' = DOp("visit", <<str, args>>, visit_f(str, args))
  /\ UNCHANGED <<svars, wvars, gil, wk>>

\* visitor(str1, str2, f, args...) is called.
Dispatch2 ==
  /\ \E str1, str2 \in DBuffers, args \in ExtraArgs :
       dlast' = DOp("visitor", <<str1, str2, args>>, visitor(str1, str2, args))
  /\ UNCHANGED <<svars, wvars, gil, wk>>


\* ============================================================= conversion
\* Host values: bytes objects, str objects (ukind is the PyUnicode_KIND of
\* the canonical representation: 1, 2 or 4 bytes per code unit; ready is
\* FALSE for a legacy str that PyUnicode_READY still has to convert, which
\* exists only where PY_VERSION_HEX < 3.10) and objects of any other type.
HostValues ==
  [ty : {"bytes"}, ukind : {1}, ready : {TRUE}, size : 0..MaxLen]
    \cup [ty : {"unicode"}, ukind : {1, 2, 4}, ready : BOOLEAN, size : 0..MaxLen]
    \cup [ty : {"int", "list"}, ukind : {1}, ready : {TRUE}, size : {0}]

\* validate_string (lines 173-191): the exception thrown, NoExn if none.
\* readyOk is the outcome of PyUnicode_READY on a str that is not ready.
validate_string(py_str, readyOk) ==
  IF py_str.ty = "bytes" THEN NoExn
  ELSE IF py_str.ty = "unicode"
    THEN IF ~py_str.ready /\ ~readyOk
           THEN [kind |-> "std::runtime_error", what |-> ""]
           ELSE NoExn
  ELSE [kind |-> "PythonTypeError", what |-> "err"]

\* Variant: 2-byte text falls into the default case.
convert_string_noMedium(py_str) ==
  IF py_str.ty = "bytes"
    THEN [dtor |-> "null", kind |-> "RF_UINT8", data |-> 8,
          length |-> py_str.size, context |-> 0]
    ELSE [dtor |-> "null",
          kind |-> IF py_str.ukind = 1 THEN "RF_UINT8" ELSE "RF_UINT32",
          data |-> 8, length |-> py_str.size, context |-> 0]

\* convert_string (lines 193-225): the RF_String returned for a bytes or a
\* ready str object.
convert_string(py_str) ==
  IF py_str.ty = "bytes"
    THEN [dtor |-> "null", kind |-> "RF_UINT8", data |-> 8,
          length |-> py_str.size, context |-> 0]
    ELSE [dtor |-> "null",
          kind |-> CASE py_str.ukind = 1 -> "RF_UINT8"
                     [] py_str.ukind = 2 -> "RF_UINT16"
                     [] OTHER            -> "RF_UINT32",
          data |-> 8, length |-> py_str.size, context |-> 0]

\* A host value is converted: validate_string, then convert_string on the
\* value that passed.  A failing PyUnicode_READY leaves the host's own error
\* pending before the exception is thrown.
Convert ==
  /\ \E py_str \in HostValues, readyOk \in BOOLEAN :
       LET e == validate_string(py_str, readyOk)
       IN /\ dlast' = [op |-> "convert", in |-> <<py_str, readyOk>>, exn |-> e,
                       reads |-> <<>>, calls |-> <<>>,
                       ret |-> IF e = NoExn THEN <<convert_string(py_str)>>
                               ELSE <<>>]
          /\ pyErr' = IF e.kind = "std::runtime_error" THEN HostError ELSE pyErr
  /\ UNCHANGED <<terminated, slots, phase, heap, frees, result, last>>
  /\ UNCHANGED <<wvars, gil, wk>>

NextD ==
  \/ Dispatch
  \/ Dispatch2
  \/ Convert

SpecD == Init /\ [][NextD]_vars

\* ------------------------------------------------------------ C11 .. C12
\* Width in bits of the element type a tag stands for.
TagWidth(kind) ==
  CASE kind = "RF_UINT8"  -> 8
    [] kind = "RF_UINT16" -> 16
    [] kind = "RF_UINT32" -> 32
    [] kind = "RF_UINT64" -> 64
    [] OTHER              -> 0

TypeWidth(type) ==
  CASE type = "uint8_t"  -> 8
    [] type = "uint16_t" -> 16
    [] type = "uint32_t" -> 32
    [] type = "uint64_t" -> 64
    [] OTHER             -> 0

\* The typed range [first, last) starts at the buffer's data, has the
\* element width of the buffer's tag and holds exactly length elements.
IsRangeOf(r, str) ==
  /\ TypeWidth(r.type) = TagWidth(str.kind)
  /\ r.first = str.data
  /\ r.last = r.first + str.length * (TagWidth(str.kind) \div 8)

\* C11: visit on a buffer with one of the four width tags calls the callback
\* exactly once with the buffer's typed range of exactly length elements,
\* forwards the extra arguments and returns the callback's result; on any
\* other tag it throws a logic failure and the callback is not called.
C11_Dispatch ==
  dlast.op = "visit" =>
    LET str == dlast.in[1]
        args == dlast.in[2]
    IN IF str.kind \in Kinds
         THEN /\ dlast.exn = NoExn
              /\ Len(dlast.calls) = 1
              /\ IsRangeOf(dlast.calls[1], str)
              /\ dlast.calls[1].args = args
              /\ dlast.ret = CallbackResult(dlast.calls[1])
         ELSE /\ dlast.exn = InvalidTag
              /\ dlast.calls = <<>>

\* visit was called on a 64-bit buffer of MaxLen elements with an extra
\* argument.
C11_Witness ==
  /\ dlast.op = "visit"
  /\ dlast.in[1].kind = "RF_UINT64"
  /\ dlast.in[1].length = MaxLen
  /\ dlast.in[2] = <<"arg">>
  /\ Len(dlast.calls) = 1
  /\ dlast.calls[1].last - dlast.calls[1].first = 8 * MaxLen

\* C12: visitor reads str2's tag before str1's and, when both tags are among
\* the four, calls f exactly once with str1's typed range followed by str2's
\* typed range and the extra arguments; when either tag is not, it throws a
\* logic failure and f is not called.
C12_Dispatch2 ==
  dlast.op = "visitor" =>
    LET str1 == dlast.in[1]
        str2 == dlast.in[2]
        args == dlast.in[3]
    IN /\ dlast.reads[1] = str2.kind
       /\ Len(dlast.reads) = 2 => dlast.reads[2] = str1.kind
       /\ IF str1.kind \in Kinds /\ str2.kind \in Kinds
            THEN /\ dlast.exn = NoExn
                 /\ dlast.reads = <<str2.kind, str1.kind>>
                 /\ Len(dlast.calls) = 1
                 /\ IsRangeOf(dlast.calls[1], str1)
                 /\ Len(dlast.calls[1].args) = 1 + Len(args)
                 /\ IsRangeOf(dlast.calls[1].args[1], str2)
                 /\ SubSeq(dlast.calls[1].args, 2, 1 + Len(args)) = args
                 /\ dlast.ret = CallbackResult(dlast.calls[1])
            ELSE /\ dlast.exn = InvalidTag
                 /\ dlast.calls = <<>>

\* visitor was called on an 8-bit str1 and a 32-bit str2 of different
\* lengths.
C12_Witness ==
  /\ dlast.op = "visitor"
  /\ dlast.in[1].kind = "RF_UINT8"
  /\ dlast.in[2].kind = "RF_UINT32"
  /\ dlast.in[1].length = 0
  /\ dlast.in[2].length = MaxLen
  /\ Len(dlast.calls) = 1
  /\ dlast.calls[1].type = "uint8_t"
  /\ dlast.calls[1].args[1].type = "uint32_t"


\* ------------------------------------------------------------------- C15
\* Every buffer produced by the conversion has no release callback and no
\* context, and none has the 64-bit tag.
ProducedPlain ==
  \A i \in 1..Len(dlast.ret) :
    /\ dlast.ret[i].dtor = "null"
    /\ dlast.ret[i].context = 0
    /\ dlast.ret[i].kind # "RF_UINT64"

\* The table of the conversion rules for bytes and for text held in 1-, 2-
\* or 4-byte storage.
ConvertsByTable(py_str) ==
  /\ dlast.exn = NoExn
  /\ Len(dlast.ret) = 1
  /\ dlast.ret[1].length = py_str.size
  /\ TagWidth(dlast.ret[1].kind) =
       IF py_str.ty = "bytes" THEN 8 ELSE 8 * py_str.ukind

\* Rejected with a type-mismatch failure, no buffer produced.
RejectedTypeMismatch ==
  /\ dlast.ret = <<>>
  /\ dlast.exn.kind = "PythonTypeError"
  /\ SelectHandler(dlast.exn, 1).type = "TypeError"

\* C15 (as amended): bytes and text in 1-, 2- or 4-byte storage convert by
\* the table; a legacy text value that PyUnicode_READY fails to bring into
\* such storage is rejected with a std::runtime_error while the host's own
\* error is pending; every other host value is rejected with a type-mismatch
\* failure; produced buffers have no release callback, no context and never
\* the 64-bit tag.
C15_Conversion ==
  dlast.op = "convert" =>
    LET py_str == dlast.in[1]
        readyOk == dlast.in[2]
    IN /\ ProducedPlain
       /\ IF py_str.ty = "bytes" \/ (py_str.ty = "unicode" /\ (py_str.ready \/ readyOk))
            THEN ConvertsByTable(py_str)
          ELSE IF py_str.ty = "unicode"
            THEN /\ dlast.ret = <<>>
                 /\ dlast.exn = [kind |-> "std::runtime_error", what |-> ""]
                 /\ pyErr = HostError
          ELSE RejectedTypeMismatch

\* C15 as stated: whatever is not bytes or text held in 1-, 2- or 4-byte
\* storage is rejected with a type-mismatch failure.
C15_Original ==
  dlast.op = "convert" =>
    LET py_str == dlast.in[1]
        readyOk == dlast.in[2]
    IN /\ ProducedPlain
       /\ IF py_str.ty = "bytes" \/ (py_str.ty = "unicode" /\ (py_str.ready \/ readyOk))
            THEN ConvertsByTable(py_str)
            ELSE RejectedTypeMismatch

\* Text in 2-byte storage of MaxLen code units was converted to a 16-bit
\* buffer.
C15_Witness ==
  /\ dlast.op = "convert"
  /\ dlast.in[1].ty = "unicode"
  /\ dlast.in[1].ukind = 2
  /\ dlast.in[1].size = MaxLen
  /\ Len(dlast.ret) = 1
  /\ dlast.ret[1].kind = "RF_UINT16"
  /\ dlast.ret[1].length = MaxLen


\* ------------------------------------------------------------------- C14
\* C14: whenever compute returns true, the output slot holds the value the
\* scoring operation returned for that query and cutoff, whatever the
\* cutoff, and the host error state is what it was before the call.
C14_ComputeSuccess ==
  [][(last'.op = "compute" /\ last'.ret) =>
       /\ last'.exn = NoExn
       /\ result' = last'.score
       /\ pyErr' = pyErr]_vars

\* A compute with a cutoff above every score succeeded while a host error
\* from an earlier failure was pending.
C14_Witness ==
  /\ last.op = "compute"
  /\ last.ret
  /\ last.cutoff = 200
  /\ result = last.score
  /\ pyErr # NoErr

\* ------------------------------------------------------------------- C18
\* C18: a build or compute call that fails has run the bridge exactly once
\* and returned false without rethrowing; one that succeeds has not run the
\* bridge.
C18_TranslatedOnce ==
  last.op \in {"build", "compute"} =>
    IF last.ret
      THEN last.exn = NoExn /\ last.bridgeCalls = 0 /\ ~last.escaped
      ELSE last.exn # NoExn /\ last.bridgeCalls = 1 /\ ~last.escaped

\* A compute failed on a foreign exception and the bridge installed its
\* error.
C18_Witness ==
  /\ last.op = "compute"
  /\ ~last.ret
  /\ last.exn.kind = "foreign"
  /\ last.bridgeCalls = 1
  /\ pyErr = UnknownErr

\* ------------------------------------------------------------------- C19
\* C19: destroy and compute leave every field of the ScorerFunc handle as it
\* was, so a destroyed handle still carries the context pointer of the freed
\* instance and the compute and destroy pointers it had when built.
C19_HandleUntouched ==
  /\ [][last'.op \in {"destroy", "compute"} => slots' = slots]_vars
  /\ [](\A s \in Slots : phase[s] = "Destroyed" =>
          /\ slots[s].context # 0
          /\ heap[slots[s].context] = "freed"
          /\ slots[s].call # "null"
          /\ slots[s].dtor # "null")

\* A handle was destroyed and still points to the freed instance.
C19_Witness ==
  /\ last.op = "destroy"
  /\ \E s \in Slots :
       /\ phase[s] = "Destroyed"
       /\ slots[s].context # 0
       /\ heap[slots[s].context] = "freed"
       /\ slots[s].dtor[1] = "scorer_deinit"


\* ------------------------------------------------------------------- C16
\* C16: a move assignment from a different wrapper runs the release
\* callback of the buffer the destination held once and drops one reference
\* of the owner it held, on what it held before it takes the source's
\* fields, and touches no other buffer or owner; the buffer is not released
\* again later; a move assignment of a wrapper to itself calls nothing and
\* changes nothing.
C16_MoveAssignReleases ==
  /\ [][(wlast'.op = "move_assign" /\ wlast'.w # wlast'.src) =>
          LET old == wr[wlast'.w]
          IN /\ \A b \in WBufs :
               released'[b] = released[b]
                 + (IF old.string.dtor # "null" /\ old.string.data = b
                      THEN 1 ELSE 0)
             /\ \A o \in Owners :
                  refcnt'[o] = refcnt[o] - (IF old.obj = o THEN 1 ELSE 0)
             /\ wr'[wlast'.w] = wr[wlast'.src]]_vars
  /\ [][(wlast'.op = "move_assign" /\ wlast'.w = wlast'.src) =>
          /\ released' = released
          /\ refcnt' = refcnt
          /\ wr' = wr
          /\ wlast'.events = <<>>]_vars
  /\ [](\A b \in WBufs : released[b] <= 1)

\* A destination holding a buffer with a release callback and an owner was
\* move-assigned from a wrapper holding another buffer: the old buffer is
\* released, the new one is not, the old owner is back at its initial count.
C16_Witness ==
  /\ wlast.op = "move_assign"
  /\ wlast.w # wlast.src
  /\ wlast.events = << <<"release", 1>>, <<"decref", 1>> >>
  /\ released[1] = 1
  /\ wr[wlast.w].string.data = 2
  /\ wr[wlast.w].string.dtor # "null"
  /\ released[2] = 0
  /\ refcnt[1] = InitRef

\* ------------------------------------------------------------------- C17
\* C17: whenever a wrapper gives up a buffer with a release callback and an
\* owner, in its destructor or as the destination of a move assignment, the
\* release callback is called before the owner reference is released.
C17_ReleaseBeforeDecref ==
  wlast.op \in {"destroy", "move_assign"} =>
    \A i, j \in 1..Len(wlast.events) :
      (wlast.events[i][1] = "decref" /\ wlast.events[j][1] = "release") => j < i

\* A wrapper holding a buffer with a release callback and an owner was
\* destroyed.
C17_Witness ==
  /\ wlast.op = "destroy"
  /\ Len(wlast.events) = 2
  /\ wlast.events[1][1] = "release"
  /\ wlast.events[2][1] = "decref"


\* =========================================================== concurrency
\* Worker threads that call the scorer functions without holding the host's
\* runtime lock, each on its own RF_ScorerFunc and its own output slot.
NumWorkers == 2
Workers == 1..NumWorkers

\* Inputs of the workers' calls.
CBuffers == [kind : {"RF_UINT8", "RF_INVALID"}, length : {MaxLen}]
COutcomes == {Ok(100), Throw([kind |-> "std::out_of_range", what |-> "m1"])}

Idle == [pc |-> "idle", exn |-> NoExn]

\* Variant: the lock is not taken.
PyGILState_Ensure_noop(g, w) == g

\* PyGILState_Ensure (lines 242, 274), once the lock is free: thread w holds
\* it afterwards.
PyGILState_Ensure(g, w) == w

\* PyGILState_Release (lines 244, 276) by the thread that took the lock.
PyGILState_Release(g, w) == IF g = w THEN 0 ELSE g

InitC ==
  /\ pyErr = NoErr
  /\ terminated = FALSE
  /\ slots = [w \in Workers |-> NullFunc]
  /\ phase = [w \in Workers |-> "Uninitialized"]
  /\ heap = [i \in Workers |-> "unalloc"]
  /\ frees = [i \in Workers |-> 0]
  /\ result = [w \in Workers |-> -1]
  /\ last = NoCall("none")
  /\ WInit
  /\ dlast = NoDispatch
  /\ gil = 0
  /\ wk = [w \in Workers |-> Idle]

\* The storage the next allocation returns.
FreshInstC ==
  CHOOSE i \in DOMAIN heap :
    heap[i] = "unalloc" /\ \A j \in DOMAIN heap : heap[j] = "unalloc" => i <= j

\* Worker w runs the try block of scorer_init_f64 (lines 264-272): on
\* success the call returns true, otherwise control enters the catch block.
TryBuild(w) ==
  /\ wk[w].pc = "idle"
  /\ phase[w] = "Uninitialized"
  /\ \E n \in 0..MaxCount, str \in CBuffers, outcome \in COutcomes :
       LET r == scorer_init_f64(slots[w], NoErr, heap, FreshInstC, n, str, outcome)
       IN /\ slots' = [slots EXCEPT ![w] = r.self]
          /\ heap' = r.heap
          /\ phase' = [phase EXCEPT ![w] = IF r.ret THEN "Built" ELSE @]
          /\ wk' = [wk EXCEPT ![w] = IF r.ret THEN Idle
                                     ELSE [pc |-> "ensure", exn |-> r.exn]]
  /\ UNCHANGED <<pyErr, terminated, frees, result, last, gil, dlast>>
  /\ UNCHANGED wvars

\* Worker w runs the try block of scorer_func_wrapper_f64 (lines 237-240).
TryCompute(w) ==
  /\ wk[w].pc = "idle"
  /\ phase[w] = "Built"
  /\ \E str \in CBuffers, outcome \in COutcomes :
       LET r == scorer_func_wrapper_f64(NoErr, result[w], str, outcome)
       IN /\ result' = [result EXCEPT ![w] = r.result]
          /\ wk' = [wk EXCEPT ![w] = IF r.ret THEN Idle
                                     ELSE [pc |-> "ensure", exn |-> r.exn]]
  /\ UNCHANGED <<pyErr, terminated, slots, phase, heap, frees, last, gil, dlast>>
  /\ UNCHANGED wvars

\* PyGILState_Ensure in the catch block (lines 242, 274) blocks until the
\* lock is free.
Ensure(w) ==
  /\ wk[w].pc = "ensure"
  /\ gil = 0
  /\ gil' = PyGILState_Ensure(gil, w)
  /\ wk' = [wk EXCEPT ![w].pc = "bridge"]
  /\ UNCHANGED <<svars, wvars, dlast>>

\* CppExn2PyErr in the catch block (lines 243, 275).
Bridge(w) ==
  /\ wk[w].pc = "bridge"
  /\ LET b == CppExn2PyErr(pyErr, wk[w].exn)
     IN /\ pyErr' = b.pyErr
        /\ terminated' = b.terminated
  /\ wk' = [wk EXCEPT ![w].pc = "release"]
  /\ UNCHANGED <<slots, phase, heap, frees, result, last, gil, dlast>>
  /\ UNCHANGED wvars

\* PyGILState_Release in the catch block (lines 244, 276).
Release(w) ==
  /\ wk[w].pc = "release"
  /\ gil' = PyGILState_Release(gil, w)
  /\ wk' = [wk EXCEPT ![w].pc = "return"]
  /\ UNCHANGED <<svars, wvars, dlast>>

\* return false (lines 245, 277).
ReturnFalse(w) ==
  /\ wk[w].pc = "return"
  /\ wk' = [wk EXCEPT ![w] = Idle]
  /\ UNCHANGED <<svars, wvars, dlast, gil>>

\* A host thread that holds the lock consumes the pending error.
HostClearC ==
  /\ gil = 0
  /\ pyErr # NoErr
  /\ pyErr' = NoErr
  /\ UNCHANGED <<terminated, slots, phase, heap, frees, result, last>>
  /\ UNCHANGED <<wvars, xvars>>

NextC ==
  \/ \E w \in Workers : TryBuild(w)
  \/ \E w \in Workers : TryCompute(w)
  \/ \E w \in Workers : Ensure(w)
  \/ \E w \in Workers : Bridge(w)
  \/ \E w \in Workers : Release(w)
  \/ \E w \in Workers : ReturnFalse(w)
  \/ HostClearC

SpecC == InitC /\ [][NextC]_vars

\* ------------------------------------------------------------------- C13
\* C13: a worker holds the runtime lock exactly from its PyGILState_Ensure
\* to its PyGILState_Release, the only thing it does in between is run the
\* bridge, the host error state changes only in a step of the thread holding
\* the lock, no call returns with the lock held and a call that succeeds
\* never takes it.
C13_LockDiscipline ==
  /\ [](\A w \in Workers : gil = w <=> wk[w].pc \in {"bridge", "release"})
  /\ [][\A w \in Workers :
          /\ (wk[w].pc = "bridge" /\ wk'[w].pc # "bridge") =>
               (gil = w /\ gil' = w /\ wk'[w].pc = "release")
          /\ (gil = w /\ wk'[w] # wk[w]) =>
               /\ <<slots, phase, heap, frees, result>>' =
                    <<slots, phase, heap, frees, result>>
               /\ wk[w].pc = "release" => (pyErr' = pyErr /\ gil' = 0)
          /\ (wk[w].pc = "ensure" /\ wk'[w].pc # "ensure") =>
               (gil = 0 /\ gil' = w /\ pyErr' = pyErr)
          /\ (phase'[w] # phase[w] \/ result'[w] # result[w]) =>
               (gil' = gil /\ gil # w /\ pyErr' = pyErr /\ wk'[w].pc = "idle")
          /\ wk'[w].pc = "idle" => gil' # w]_vars
  /\ [][pyErr' # pyErr =>
          \/ \E w \in Workers : gil = w /\ wk[w].pc = "bridge"
          \/ gil = 0 /\ pyErr' = NoErr]_vars

\* One worker is inside the bridge's critical section while another waits
\* for the lock with its own exception, and a third call has succeeded.
C13_Witness ==
  \E w, v \in Workers :
    /\ w # v
    /\ gil = w
    /\ wk[w].pc = "release"
    /\ pyErr # NoErr
    /\ wk[v].pc = "ensure"
    /\ phase[v] = "Built"

====
